---- MODULE Spec2Model ----
(***************************************************************************)
(* State-machine model of SudokuSolver (src/src/main.rs): the grid type    *)
(* SudokuGrid with its queries, and the iterative backtracking solver      *)
(* `solve`, one action per branch of its loop body.                        *)
(***************************************************************************)
EXTENDS Integers, Sequences, FiniteSets, TLC

(***************************************************************************)
(* Bounds of the exploration.                                              *)
(***************************************************************************)
\* budgets 0..MaxBudget and NumCells-1 .. NumCells-1+MaxBudget are explored
MaxBudget == 3
\* at most MaxBlanks cells of BlankPool are emptied in a generated puzzle
MaxBlanks == 4
\* get is called on the coordinates 0 .. MaxCoord
MaxCoord == 10
\* from_data is given slices of NumCells - MaxCut .. NumCells + MaxCut values
MaxCut == 1

(***************************************************************************)
(* Program constants.                                                      *)
(***************************************************************************)
NumCells == 81
MAX_ITERATIONS_DEFAULT == 1000000

(***************************************************************************)
(* SudokuGrid: data is a zero-indexed vector of cell values.               *)
(***************************************************************************)
\* Vec::from(slice): a zero-indexed copy of the values, of whatever length
from_data(values) == [i \in 0 .. Len(values) - 1 |-> values[i + 1]]

empty == [i \in 0 .. NumCells - 1 |-> 0]

\* self.data.get(y * 9 + x), None => 0
get(data, x, y) ==
    LET i == y * 9 + x IN IF i \in DOMAIN data THEN data[i] ELSE 0

\* self.data[y * 9 + x] = value panics when the index is out of bounds
InBounds(data, x, y) == (y * 9 + x) \in DOMAIN data

set(data, x, y, value) == [data EXCEPT ![y * 9 + x] = value]

row(data, y) == [k \in 0 .. 8 |-> get(data, k, y)]

column(data, x) == [k \in 0 .. 8 |-> get(data, x, k)]

group(data, x, y) ==
    LET group_start_x == x - (x % 3)
        group_start_y == y - (y % 3)
    IN  [k \in 0 .. 8 |->
            get(data, group_start_x + (k % 3), group_start_y + (k \div 3))]

\* Vec::contains
Contains(vec, value) == \E k \in DOMAIN vec : vec[k] = value

\* iter().filter(|v| v == value).count()
Count(vec, value) == Cardinality({k \in DOMAIN vec : vec[k] = value})

checkExcludingSelf(data, x, y, value) ==
    ~ \E xx \in 0 .. 8 : \E yy \in 0 .. 8 :
        /\ <<xx, yy>> # <<x, y>>
        /\ \/ xx = x
           \/ yy = y
           \/ (xx \div 3 = x \div 3 /\ yy \div 3 = y \div 3)
        /\ get(data, xx, yy) = value

check(data, x, y, value) ==
    IF Contains(row(data, y), value) THEN FALSE
    ELSE IF Contains(column(data, x), value) THEN FALSE
    ELSE IF Contains(group(data, x, y), value) THEN FALSE
    ELSE TRUE

is_emptyNever(data) == FALSE

is_empty(data) == ~ \E i \in DOMAIN data : data[i] > 0

\* the ranges `0..8` of the two loops of check_grid
CheckedRange == 0 .. 7

check_grid(data) ==
    IF is_empty(data) THEN FALSE
    ELSE \A yy \in CheckedRange : \A xx \in CheckedRange :
            LET value == get(data, xx, yy) IN
            value # 0 =>
                /\ ~ (Count(row(data, yy), value) > 1)
                /\ ~ (Count(column(data, xx), value) > 1)
                /\ ~ (Count(group(data, xx, yy), value) > 1)

Clone(data) == data

(***************************************************************************)
(* solve: the locals of one call are kept in a record                      *)
(*   [grid, solved_grid, x, y, iterating_forward, exit]                    *)
(* where exit tells how the loop body was left: "continue" (falls through  *)
(* to the counter increment), "break", "unsolvable" (return Err) or        *)
(* "panic" (index out of bounds in set).                                   *)
(***************************************************************************)
BackBlockUnguarded(s) ==
    IF s.x = 0 THEN
        IF s.y - 1 < 0 THEN [s EXCEPT !.exit = "panic"]
        ELSE [s EXCEPT !.x = 8, !.y = s.y - 1]
    ELSE [s EXCEPT !.x = s.x - 1]

\* Common block to go back
BackBlock(s) ==
    IF s.x = 0 THEN
        IF s.y > 0 THEN [s EXCEPT !.x = 8, !.y = s.y - 1]
        ELSE [s EXCEPT !.exit = "unsolvable"]
    ELSE [s EXCEPT !.x = s.x - 1]

ForwardBlockUnbounded(s) ==
    IF s.x >= 8 THEN [s EXCEPT !.x = 0, !.y = s.y + 1]
    ELSE [s EXCEPT !.x = s.x + 1]

\* Common block to go forward
ForwardBlock(s) ==
    IF s.x >= 8 THEN
        IF s.y >= 8 THEN [s EXCEPT !.exit = "break"]
        ELSE [s EXCEPT !.x = 0, !.y = s.y + 1]
    ELSE [s EXCEPT !.x = s.x + 1]

Min(S) == CHOOSE v \in S : \A w \in S : v <= w
Max(S) == CHOOSE v \in S : \A w \in S : v >= w

FirstFitSkipping(data, x, y, first) ==
    LET fits == {value \in (first + 1) .. 9 : check(data, x, y, value)}
    IN  IF fits = {} THEN [invalid |-> TRUE, value |-> 0]
        ELSE [invalid |-> FALSE, value |-> Min(fits)]

FirstFitDescending(data, x, y, first) ==
    LET fits == {value \in first .. 9 : check(data, x, y, value)}
    IN  IF fits = {} THEN [invalid |-> TRUE, value |-> 0]
        ELSE [invalid |-> FALSE, value |-> Max(fits)]

\* for value in first..=9 { if check(x, y, value) { invalid = false; break } }
FirstFit(data, x, y, first) ==
    LET fits == {value \in first .. 9 : check(data, x, y, value)}
    IN  IF fits = {} THEN [invalid |-> TRUE, value |-> 0]
        ELSE [invalid |-> FALSE, value |-> Min(fits)]

PlaceInPlace(s, value) ==
    IF InBounds(s.solved_grid, s.x, s.y)
    THEN [s EXCEPT !.solved_grid = set(s.solved_grid, s.x, s.y, value),
                   !.grid = set(s.grid, s.x, s.y, value)]
    ELSE [s EXCEPT !.exit = "panic"]

\* solved_grid.set(x, y, value)
Place(s, value) ==
    IF InBounds(s.solved_grid, s.x, s.y)
    THEN [s EXCEPT !.solved_grid = set(s.solved_grid, s.x, s.y, value)]
    ELSE [s EXCEPT !.exit = "panic"]

IsFreeAlways(s) == TRUE

\* grid.get(x, y) == 0: the cell is not a preset digit of the input
IsFree(s) == get(s.grid, s.x, s.y) = 0

\* free cell, iterating forward
FillForward(s) ==
    LET f == FirstFit(s.solved_grid, s.x, s.y, 1) IN
    IF f.invalid THEN BackBlock([s EXCEPT !.iterating_forward = FALSE])
    ELSE LET p == Place(s, f.value) IN
         IF p.exit = "panic" THEN p ELSE ForwardBlock(p)

RefillFromOne(s) ==
    LET f == FirstFit(s.solved_grid, s.x, s.y, 1)
    IN  IF f.invalid THEN
            LET p == Place(s, 0) IN
            IF p.exit = "panic" THEN p ELSE BackBlock(p)
        ELSE
            LET p == Place(s, f.value) IN
            IF p.exit = "panic" THEN p
            ELSE ForwardBlock([p EXCEPT !.iterating_forward = TRUE])

RefillNoReset(s) ==
    LET current_value == get(s.solved_grid, s.x, s.y)
        f == FirstFit(s.solved_grid, s.x, s.y, current_value)
    IN  IF f.invalid THEN BackBlock(s)
        ELSE
            LET p == Place(s, f.value) IN
            IF p.exit = "panic" THEN p
            ELSE ForwardBlock([p EXCEPT !.iterating_forward = TRUE])

\* free cell, iterating backward
Refill(s) ==
    LET current_value == get(s.solved_grid, s.x, s.y)
        f == FirstFit(s.solved_grid, s.x, s.y, current_value)
    IN  IF f.invalid THEN
            LET p == Place(s, 0) IN
            IF p.exit = "panic" THEN p ELSE BackBlock(p)
        ELSE
            LET p == Place(s, f.value) IN
            IF p.exit = "panic" THEN p
            ELSE ForwardBlock([p EXCEPT !.iterating_forward = TRUE])

SkipPresetForwardOnly(s) == ForwardBlock(s)

\* preset digit at the current position
SkipPreset(s) ==
    IF s.iterating_forward THEN ForwardBlock(s) ELSE BackBlock(s)

CountAfterAlways(count, exit) == count + 1

CountAfterNever(count, exit) == count

\* iteration_count += 1 is reached only when the body neither breaks nor returns
CountAfter(count, exit) == IF exit = "continue" THEN count + 1 ELSE count

\* the code after the loop
AfterLoop(count, max) ==
    IF count = max THEN "IterationCountOverflow" ELSE "Ok"

(***************************************************************************)
(* Input grids.                                                            *)
(***************************************************************************)
\* the puzzle of the test solve_sudoku1
TestValues ==
    << 0, 6, 0, 0, 0, 0, 9, 7, 0,   0, 3, 0, 8, 0, 4, 0, 0, 0,
       2, 0, 0, 5, 9, 0, 0, 0, 0,   0, 7, 0, 0, 4, 0, 6, 0, 0,
       0, 0, 5, 0, 0, 0, 1, 0, 0,   0, 0, 6, 0, 3, 0, 0, 8, 0,
       0, 0, 0, 0, 5, 9, 0, 0, 1,   0, 0, 0, 1, 0, 7, 0, 3, 0,
       0, 8, 1, 0, 0, 0, 0, 6, 0 >>

\* the grid the test solve_sudoku1 expects
TestExpected ==
    << 8, 6, 4, 3, 1, 2, 9, 7, 5,   5, 3, 9, 8, 7, 4, 2, 1, 6,
       2, 1, 7, 5, 9, 6, 3, 4, 8,   3, 7, 8, 9, 4, 1, 6, 5, 2,
       4, 2, 5, 7, 6, 8, 1, 9, 3,   1, 9, 6, 2, 3, 5, 7, 8, 4,
       7, 4, 3, 6, 5, 9, 8, 2, 1,   6, 5, 2, 1, 8, 7, 4, 3, 9,
       9, 8, 1, 4, 2, 3, 5, 6, 7 >>

example_grid ==
    from_data(
    << 5, 3, 0,   0, 7, 0,   0, 0, 0,
       6, 0, 0,   1, 9, 5,   0, 0, 0,
       0, 9, 8,   0, 0, 0,   0, 6, 0,

       8, 0, 0,   0, 6, 0,   0, 0, 3,
       4, 0, 0,   8, 0, 3,   0, 0, 1,
       7, 0, 0,   0, 2, 0,   0, 0, 6,

       0, 6, 0,   0, 0, 0,   2, 8, 0,
       0, 0, 0,   4, 1, 9,   0, 0, 5,
       0, 0, 0,   0, 8, 0,   0, 7, 9 >>)

\* data with the cells of `cells` (index :> value) overwritten
WithCells(data, cells) ==
    [i \in DOMAIN data |-> IF i \in DOMAIN cells THEN cells[i] ELSE data[i]]

\* data with the cells of the index set B emptied
Blanked(data, B) == [i \in DOMAIN data |-> IF i \in B THEN 0 ELSE data[i]]

\* (0,0) is empty and every digit is in its row or column: no first step
DeadCorner ==
    WithCells(empty, (1 :> 1) @@ (2 :> 2) @@ (3 :> 3) @@ (4 :> 4) @@ (5 :> 5)
                     @@ (6 :> 6) @@ (7 :> 7) @@ (8 :> 8) @@ (9 :> 9))

\* (0,0) and (1,0) need 1 and 2, column 1 holds both: exhausted at (0,0)
DeadPair ==
    WithCells(empty, (2 :> 3) @@ (3 :> 4) @@ (4 :> 5) @@ (5 :> 6) @@ (6 :> 7)
                     @@ (7 :> 8) @@ (8 :> 9) @@ (37 :> 1) @@ (46 :> 2))

\* (0,0) is preset, (1,0) needs 2, column 1 holds it: retreat onto a preset
DeadSecond ==
    WithCells(empty, (0 :> 3) @@ (2 :> 4) @@ (3 :> 5) @@ (4 :> 6) @@ (5 :> 7)
                     @@ (6 :> 8) @@ (7 :> 9) @@ (8 :> 1) @@ (37 :> 2))

\* two 5s in row 8 and nothing else; the search on it outlasts the default
\* budget, so it is run under the smaller budgets only
TwoFives == WithCells(empty, (72 :> 5) @@ (73 :> 5))

\* cells emptied in the generated puzzles: {0,8,9} forces a retreat along
\* row 0, {4,7,13,16} leaves two completions
BlankPool == {0, 8, 9, 4, 7, 13, 16}

\* cells overwritten by a digit in the generated puzzles
PokeCells == {1, 80}

GeneratedPuzzles ==
    {Blanked(from_data(TestExpected), B) :
        B \in {C \in SUBSET BlankPool : Cardinality(C) <= MaxBlanks}}

\* the solved grid, and a puzzle from it in which (8,8) := 9 repeats no digit
PokeBases ==
    {from_data(TestExpected),
     Blanked(from_data(TestExpected), {0, 8, 9, 71, 72})}

PokedGrids ==
    {WithCells(g, i :> v) : g \in PokeBases, i \in PokeCells, v \in 1 .. 9}

Inputs ==
    {from_data(TestValues), example_grid, empty,
     DeadCorner, DeadPair, DeadSecond, TwoFives}
    \cup GeneratedPuzzles \cup PokedGrids

Budgets ==
    (0 .. MaxBudget) \cup {NumCells - 1 + k : k \in 0 .. MaxBudget}
    \cup {MAX_ITERATIONS_DEFAULT}

(***************************************************************************)
(* State of one call solve(grid, max_iterations).  values is the slice     *)
(* handed to from_data when the grid is built from explicit data, << >>    *)
(* otherwise.                                                              *)
(***************************************************************************)
VARIABLES grid, max_iterations, solved_grid, iteration_count, x, y,
          iterating_forward, pc, result, values

vars == <<grid, max_iterations, solved_grid, iteration_count, x, y,
          iterating_forward, pc, result, values>>

Locals ==
    [grid |-> grid, solved_grid |-> solved_grid, x |-> x, y |-> y,
     iterating_forward |-> iterating_forward, exit |-> "continue"]

Init ==
    /\ grid \in Inputs
    /\ max_iterations \in Budgets
    /\ grid = TwoFives => max_iterations # MAX_ITERATIONS_DEFAULT
    /\ solved_grid = << >>
    /\ iteration_count = 0
    /\ x = 0
    /\ y = 0
    /\ iterating_forward = TRUE
    /\ pc = "check"
    /\ result = "none"
    /\ values = << >>

\* if !grid.check_grid() { return Err(InvalidGrid) }
RejectGrid ==
    /\ pc = "check"
    /\ ~ check_grid(grid)
    /\ pc' = "done"
    /\ result' = "InvalidGrid"
    /\ UNCHANGED <<grid, max_iterations, solved_grid, iteration_count, x, y,
                   iterating_forward, values>>

\* let mut solved_grid = grid.clone(), and the locals
AcceptGrid ==
    /\ pc = "check"
    /\ check_grid(grid)
    /\ solved_grid' = Clone(grid)
    /\ iteration_count' = 0
    /\ x' = 0
    /\ y' = 0
    /\ iterating_forward' = TRUE
    /\ pc' = "loop"
    /\ UNCHANGED <<grid, max_iterations, result, values>>

\* the end of one pass through the loop body that left the locals as r
Commit(r) ==
    /\ grid' = r.grid
    /\ solved_grid' = r.solved_grid
    /\ x' = r.x
    /\ y' = r.y
    /\ iterating_forward' = r.iterating_forward
    /\ iteration_count' = CountAfter(iteration_count, r.exit)
    /\ pc' = IF r.exit = "continue" THEN "loop" ELSE "done"
    /\ result' = CASE r.exit = "continue" -> result
                   [] r.exit = "break" ->
                        AfterLoop(CountAfter(iteration_count, r.exit),
                                  max_iterations)
                   [] r.exit = "unsolvable" -> "Unsolvable"
                   [] OTHER -> "Panic"
    /\ UNCHANGED <<max_iterations, values>>

LoopCond == iteration_count < max_iterations

StepFreeForward ==
    /\ pc = "loop"
    /\ LoopCond
    /\ IsFree(Locals)
    /\ iterating_forward
    /\ Commit(FillForward(Locals))

StepFreeBackward ==
    /\ pc = "loop"
    /\ LoopCond
    /\ IsFree(Locals)
    /\ ~ iterating_forward
    /\ Commit(Refill(Locals))

StepPreset ==
    /\ pc = "loop"
    /\ LoopCond
    /\ ~ IsFree(Locals)
    /\ Commit(SkipPreset(Locals))

\* the loop condition fails: the code after the loop decides the result
LoopExit ==
    /\ pc = "loop"
    /\ ~ LoopCond
    /\ pc' = "done"
    /\ result' = AfterLoop(iteration_count, max_iterations)
    /\ UNCHANGED <<grid, max_iterations, solved_grid, iteration_count, x, y,
                   iterating_forward, values>>

Next ==
    \/ RejectGrid
    \/ AcceptGrid
    \/ StepFreeForward
    \/ StepFreeBackward
    \/ StepPreset
    \/ LoopExit

Spec == Init /\ [][Next]_vars

\* the two full puzzles run for more than ten thousand passes under the
\* default budget: whole behaviours are checked on the other inputs, and on
\* these two under the small budgets; the generated puzzles run under the
\* default budget
ShortInit ==
    /\ Init
    /\ grid \in GeneratedPuzzles => max_iterations = MAX_ITERATIONS_DEFAULT
    /\ grid \in {from_data(TestValues), example_grid}
            => max_iterations <= MaxBudget

\* the call runs to its return: nothing suspends it
FairSpec == ShortInit /\ [][Next]_vars /\ WF_vars(Next)

(***************************************************************************)
(* A grid built by from_data from a slice of any length, then solved, as   *)
(* the test solve_sudoku1 does.                                            *)
(***************************************************************************)
\* the slice that holds the cells of data
ValuesOf(data) == [i \in 1 .. NumCells |-> data[i - 1]]

\* the first n values of a slice, padded with zeros
Resized(slice, n) ==
    [i \in 1 .. n |-> IF i <= Len(slice) THEN slice[i] ELSE 0]

BuildBases ==
    {TestExpected, ValuesOf(empty), ValuesOf(DeadPair), ValuesOf(DeadSecond),
     ValuesOf(Blanked(from_data(TestExpected), {0, 8, 9})),
     ValuesOf(WithCells(Blanked(from_data(TestExpected), {0, 8, 9, 71, 72}),
                        80 :> 9))}

BuildLengths == {0, 1} \cup (NumCells - MaxCut .. NumCells + MaxCut)

BuildInit ==
    /\ values \in {Resized(b, n) : b \in BuildBases, n \in BuildLengths}
    /\ max_iterations \in Budgets
    /\ grid = << >>
    /\ solved_grid = << >>
    /\ iteration_count = 0
    /\ x = 0
    /\ y = 0
    /\ iterating_forward = TRUE
    /\ pc = "from_data"
    /\ result = "none"

\* let grid = SudokuGrid::from_data(values.as_slice())
FromData ==
    /\ pc = "from_data"
    /\ grid' = from_data(values)
    /\ pc' = "check"
    /\ UNCHANGED <<max_iterations, solved_grid, iteration_count, x, y,
                   iterating_forward, result, values>>

BuildNext ==
    \/ FromData
    \/ Next

BuildSpec == BuildInit /\ [][BuildNext]_vars /\ WF_vars(BuildNext)

(***************************************************************************)
(* One call grid.get(x, y), on coordinates up to MaxCoord.                 *)
(***************************************************************************)
GetInit ==
    /\ grid \in {example_grid, from_data(TestExpected), empty}
    /\ x \in 0 .. MaxCoord
    /\ y \in 0 .. MaxCoord
    /\ pc = "get"
    /\ result = "none"
    /\ max_iterations = 0
    /\ solved_grid = << >>
    /\ iteration_count = 0
    /\ iterating_forward = TRUE
    /\ values = << >>

CallGet ==
    /\ pc = "get"
    /\ result' = get(grid, x, y)
    /\ pc' = "done"
    /\ UNCHANGED <<grid, max_iterations, solved_grid, iteration_count, x, y,
                   iterating_forward, values>>

GetSpec == GetInit /\ [][CallGet]_vars

(***************************************************************************)
(* Sudoku rules, stated on cell indices independently of the grid queries. *)
(***************************************************************************)
Cells == 0 .. NumCells - 1

SameUnit(i, j) ==
    \/ i \div 9 = j \div 9
    \/ i % 9 = j % 9
    \/ /\ (i \div 9) \div 3 = (j \div 9) \div 3
       /\ (i % 9) \div 3 = (j % 9) \div 3

\* the other cells of the row, the column and the block of each cell
Peers == [i \in Cells |-> {j \in Cells : j # i /\ SameUnit(i, j)}]

\* some digit occurs twice in a row, a column or a block
HasDuplicate(data) ==
    \E i \in Cells : data[i] # 0 /\ \E j \in Peers[i] : data[j] = data[i]

HasEmptyCell(data) == \E i \in Cells : data[i] = 0

\* every cell is nonzero and no digit repeats in a row, a column or a block
IsSolved(data) ==
    /\ DOMAIN data = Cells
    /\ ~ HasEmptyCell(data)
    /\ ~ HasDuplicate(data)

\* all the solved grids that extend data on its empty cells
RECURSIVE Completions(_)
Completions(data) ==
    LET free == {i \in Cells : data[i] = 0} IN
    IF free = {} THEN (IF IsSolved(data) THEN {data} ELSE {})
    ELSE LET i == Min(free)
             fits == {v \in 1 .. 9 : \A j \in Peers[i] : data[j] # v}
         IN  UNION {Completions([data EXCEPT ![i] = v]) : v \in fits}

\* c comes no later than d when cells are compared in row-major order
LexLeq(c, d) ==
    \/ c = d
    \/ LET k == Min({i \in Cells : c[i] # d[i]}) IN c[k] < d[k]

LexFirst(grids) == CHOOSE c \in grids : \A d \in grids : LexLeq(c, d)

Returned == pc = "done"

\* the clone exists: the grid was accepted
Accepted == pc = "loop" \/ (Returned /\ result # "InvalidGrid")

(***************************************************************************)
(* Claims.                                                                 *)
(***************************************************************************)
\* C1: whenever solve returns success, the returned grid is solved: all 81
\* cells nonzero and no digit twice in a row, a column or a block.
C1_SuccessIsSolved == (Returned /\ result = "Ok") => IsSolved(solved_grid)

\* C2: a grid with a digit twice in a row, a column or a block fails the
\* validity check and solve returns InvalidGrid at once, with no search step
\* and the iteration counter still 0.
C2_DuplicateRejected ==
    (pc # "check" /\ HasDuplicate(grid)) =>
        /\ ~ check_grid(grid)
        /\ Returned
        /\ result = "InvalidGrid"
        /\ iteration_count = 0
        /\ solved_grid = << >>

\* C3: Unsolvable is returned only for grids that have no valid completion.
C3_Exhaustive ==
    (Returned /\ result = "Unsolvable") => Completions(grid) = {}

C3_Witness ==
    /\ Returned
    /\ result = "Unsolvable"
    /\ ~ HasDuplicate(grid)
    /\ iteration_count > NumCells

\* C4: for an accepted grid with a valid completion and a budget that lets
\* the search finish, solve returns success with the first completion in
\* row-major, digit-ascending order; the test puzzle yields the test's grid.
C4_FirstCompletion ==
    (Returned /\ check_grid(grid) /\ result # "IterationCountOverflow") =>
        /\ Completions(grid) # {} =>
                /\ result = "Ok"
                /\ solved_grid = LexFirst(Completions(grid))
        /\ grid = from_data(TestValues) =>
                solved_grid = from_data(TestExpected)

C4_Witness ==
    /\ Returned
    /\ result = "Ok"
    /\ Cardinality(Completions(grid)) > 1

\* C5: once cloned, the working grid holds the original value in every cell
\* that is nonzero in the input, in every state of the run and at return.
C5_PresetsKept ==
    Accepted =>
        \A i \in DOMAIN grid : grid[i] # 0 => solved_grid[i] = grid[i]

C5_Witness ==
    /\ pc = "loop"
    /\ ~ iterating_forward
    /\ ~ IsFree(Locals)
    /\ solved_grid # grid

\* C6: no step of solve changes the grid it was given.
C6_InputUnchanged == [][grid' = grid]_vars

C6_Witness ==
    /\ Returned
    /\ result = "Ok"
    /\ solved_grid # grid

\* C7: the counter never exceeds max_iterations; an accepted grid yields
\* IterationCountOverflow exactly when the counter has reached
\* max_iterations, which the loop exit reports; a pass of the loop body
\* started below max_iterations never ends in IterationCountOverflow.
C7_Budget ==
    /\ [](iteration_count <= max_iterations)
    /\ []((Returned /\ check_grid(grid)) =>
            (result = "IterationCountOverflow"
                <=> iteration_count = max_iterations))
    /\ [][(pc = "loop" /\ ~ LoopCond) => result' = "IterationCountOverflow"]_vars
    /\ [][(pc = "loop" /\ LoopCond /\ pc' = "done") =>
            result' \in {"Ok", "Unsolvable"}]_vars

C7_Witness ==
    /\ Returned
    /\ result = "Ok"
    /\ iteration_count + 1 = max_iterations

\* every digit is in the row, the column or the block of the empty (0,0)
CornerDead(data) ==
    /\ data[0] = 0
    /\ \A v \in 1 .. 9 : \E j \in Peers[0] : data[j] = v

\* C8 as stated: max_iterations = 1 on an accepted grid with an empty cell
\* yields IterationCountOverflow.
C8_BudgetOne ==
    (Returned /\ max_iterations = 1 /\ check_grid(grid) /\ HasEmptyCell(grid))
        => result = "IterationCountOverflow"

\* C8 amended: max_iterations = 1 on an accepted grid with an empty cell
\* yields IterationCountOverflow, except that it yields Unsolvable when
\* (0,0) is empty and no digit can be placed there; never a solution.
C8_BudgetOneAmended ==
    (Returned /\ max_iterations = 1 /\ check_grid(grid) /\ HasEmptyCell(grid))
        => result = (IF CornerDead(grid) THEN "Unsolvable"
                     ELSE "IterationCountOverflow")

C8_Witness ==
    /\ Returned
    /\ max_iterations = 1
    /\ HasEmptyCell(grid)
    /\ result = "IterationCountOverflow"
    /\ iteration_count = 1

Outcomes == {"Ok", "InvalidGrid", "Unsolvable", "IterationCountOverflow"}

\* C9: every call returns, with one of the four outcomes, and no step
\* panics (no out-of-range write, no arithmetic underflow).
C9_Total ==
    /\ <>Returned
    /\ [](Returned => result \in Outcomes)

C9_Witness ==
    /\ Returned
    /\ result = "Unsolvable"
    /\ x = 0
    /\ y = 0
    /\ iteration_count > 0

\* C10: the all-zero grid fails the validity check and solve returns
\* InvalidGrid for every max_iterations, before any search.
C10_EmptyRejected ==
    /\ ~ check_grid(empty)
    /\ (grid = empty /\ pc # "check") =>
            /\ Returned
            /\ result = "InvalidGrid"
            /\ iteration_count = 0

C10_Witness ==
    /\ grid = empty
    /\ Returned
    /\ max_iterations = 0
    /\ result = "InvalidGrid"

\* C11: get(x, y) returns 0 whenever x > 8 or y > 8.
C11_OutOfRangeZero == (Returned /\ (x > 8 \/ y > 8)) => result = 0

\* C12: from_data fails on every slice whose length is not 81, so every grid
\* handed to solve has exactly 81 cells.
C12_LengthEnforced ==
    (pc # "from_data" /\ Len(values) # NumCells) =>
        (Returned /\ result = "Panic")

\* flat index of the cursor
Cursor == y * 9 + x

\* C13: while the loop runs, when advancing every cell before the cursor is
\* nonzero and every free cell at or after it is 0; when retreating every
\* cell at or before the cursor is nonzero and every free cell after it is 0.
C13_StackEncoding ==
    pc = "loop" =>
        IF iterating_forward
        THEN \A i \in Cells :
                /\ i < Cursor => solved_grid[i] # 0
                /\ (i >= Cursor /\ grid[i] = 0) => solved_grid[i] = 0
        ELSE \A i \in Cells :
                /\ i <= Cursor => solved_grid[i] # 0
                /\ (i > Cursor /\ grid[i] = 0) => solved_grid[i] = 0

C13_Witness ==
    /\ pc = "loop"
    /\ ~ iterating_forward
    /\ IsFree(Locals)
    /\ \E i \in Cells : i < Cursor /\ grid[i] = 0
    /\ \E i \in Cells : i > Cursor /\ grid[i] = 0

\* C14: a retreat step on a free cell finds a value v in 1..9 there; v fails
\* check because it stands in its own row; the step either resets the cell
\* to 0 and keeps retreating or writes a value greater than v and advances.
\* A forward placement writes a digit 1..9.
C14_RetreatRaises ==
    /\ [][(pc = "loop" /\ LoopCond /\ IsFree(Locals) /\ ~ iterating_forward) =>
            LET v == solved_grid[Cursor]
                w == solved_grid'[Cursor]
            IN  /\ v \in 1 .. 9
                /\ Contains(row(solved_grid, y), v)
                /\ ~ check(solved_grid, x, y, v)
                /\ IF iterating_forward' \/ result' = "Ok"
                   THEN w \in (v + 1) .. 9
                   ELSE w = 0]_vars
    /\ [][(pc = "loop" /\ LoopCond /\ IsFree(Locals) /\ iterating_forward
            /\ solved_grid' # solved_grid) =>
            solved_grid'[Cursor] \in 1 .. 9]_vars

C14_Witness ==
    /\ pc = "loop"
    /\ LoopCond
    /\ IsFree(Locals)
    /\ ~ iterating_forward
    /\ \E w \in 1 .. 9 : w > solved_grid[Cursor] /\ check(solved_grid, x, y, w)

\* Progress measure of the search.  The free cells, read in row-major order,
\* form a counter: a retreating search has exhausted the value of the last
\* free cell at or before the cursor (digit 2v+1 instead of 2v), and has
\* exhausted everything when there is no such cell (top).  Within one
\* counter value the cursor moves forward when advancing, backward when
\* retreating.
Rank(input, work, cursor, forward) ==
    LET behind == {i \in Cells : i <= cursor /\ input[i] = 0}
        top == ~ forward /\ behind = {}
        last == IF forward \/ behind = {} THEN -1 ELSE Max(behind)
    IN  [top |-> IF top THEN 1 ELSE 0,
         key |-> [i \in Cells |->
                    IF input[i] # 0 THEN 0
                    ELSE IF i = last THEN 2 * work[i] + 1
                    ELSE 2 * work[i]],
         pos |-> IF forward THEN cursor ELSE 2 * NumCells - cursor]

\* lexicographic order on (top, key, pos)
RankLess(a, b) ==
    \/ a.top < b.top
    \/ /\ a.top = b.top
       /\ LET diff == {i \in Cells : a.key[i] # b.key[i]} IN
          IF diff = {} THEN a.pos < b.pos
          ELSE LET m == Min(diff) IN a.key[m] < b.key[m]

\* C15: every pass of the loop that stays in the loop strictly raises the
\* progress measure, so no (working grid, cursor, direction) is visited
\* twice and the search ends by itself; the runs under the default budget
\* end in success or Unsolvable.
C15_SearchTerminates ==
    /\ [][(pc = "loop" /\ pc' = "loop") =>
            RankLess(Rank(grid, solved_grid, Cursor, iterating_forward),
                     Rank(grid', solved_grid', y' * 9 + x',
                          iterating_forward'))]_vars
    /\ []((Returned /\ check_grid(grid)
            /\ max_iterations = MAX_ITERATIONS_DEFAULT) =>
                result \in {"Ok", "Unsolvable"})

C15_Witness ==
    /\ Returned
    /\ result = "Ok"
    /\ max_iterations = MAX_ITERATIONS_DEFAULT
    /\ iteration_count > 100 * NumCells

\* C16: the cursor stays within 0..8 x 0..8; a pass moves it one cell forward
\* (wrapping to the next row) or one cell back (wrapping to the previous
\* row), or ends the run at (8,8) or at (0,0) without moving it; a pass
\* writes no cell other than the one under the cursor.
C16_CursorInGrid ==
    /\ [](x \in 0 .. 8 /\ y \in 0 .. 8)
    /\ [][(pc = "loop" /\ LoopCond) =>
            /\ IF pc' = "loop"
               THEN y' * 9 + x' =
                        (IF iterating_forward' THEN Cursor + 1 ELSE Cursor - 1)
               ELSE /\ x' = x
                    /\ y' = y
                    /\ result' \in {"Ok", "Unsolvable"}
                    /\ result' = "Ok" => (x = 8 /\ y = 8)
                    /\ result' = "Unsolvable" => (x = 0 /\ y = 0)
            /\ DOMAIN solved_grid' = Cells
            /\ \A i \in Cells \ {Cursor} : solved_grid'[i] = solved_grid[i]]_vars

C16_Witness ==
    /\ pc = "loop"
    /\ ~ iterating_forward
    /\ x = 8
    /\ y < 8
    /\ IsFree(Locals)

\* C17: a pass on a preset cell leaves the working grid and the direction
\* unchanged; it moves the cursor one cell in the current direction and
\* adds one to the counter, or ends the run at the boundary with the cursor
\* and the counter unchanged.
C17_PresetStep ==
    [][(pc = "loop" /\ LoopCond /\ ~ IsFree(Locals)) =>
        /\ solved_grid' = solved_grid
        /\ iterating_forward' = iterating_forward
        /\ IF pc' = "loop"
           THEN /\ iteration_count' = iteration_count + 1
                /\ y' * 9 + x' =
                        (IF iterating_forward THEN Cursor + 1 ELSE Cursor - 1)
           ELSE /\ iteration_count' = iteration_count
                /\ x' = x
                /\ y' = y
                /\ Cursor = (IF iterating_forward THEN NumCells - 1 ELSE 0)
                /\ result' = (IF iterating_forward THEN "Ok"
                              ELSE "Unsolvable")]_vars

C17_Witness ==
    /\ pc = "loop"
    /\ ~ iterating_forward
    /\ ~ IsFree(Locals)
    /\ x = 0
    /\ y > 0
    /\ LoopCond

====
